---- MODULE Spec2Model ----
(***************************************************************************)
(* Model of the paper-collection core of the banking-AI research           *)
(* catalogue: the retry wrapper, the collection pipeline with its          *)
(* knowledge-base fallback (services/geminiService.ts) and the local       *)
(* paper store (services/storageService.ts).                               *)
(*                                                                         *)
(* Conventions.  A JavaScript string is a sequence of one-character        *)
(* strings.  An error message is a sequence of words, and                  *)
(* msg.includes("429") is the presence of the word "429".  A missing       *)
(* numeric field of an error (status, code) is 0.  Delays are in ms.       *)
(***************************************************************************)
EXTENDS Integers, Sequences, FiniteSets, TLC

VARIABLES
    \* ---- one call of retryOperation (the frame of the recursion) ----
    rpc,          \* "idle" | "calling" | "waiting" | "returned" | "thrown"
    caller,       \* who called retryOperation: "test" | "search" | "kb"
    retries,      \* the parameter retries of the current recursion level
    initialDelay, \* the parameter initialDelay of the current level
    r0, d0,       \* the parameters of the outermost call
    rlog,         \* history: the calls of operation() and the delays, in order
    failures,     \* history: the errors operation() threw, in order
    opValue,      \* history: the value operation() resolved with (<<>> if none)
    rValue,       \* the value retryOperation resolved with
    rErr,         \* the error retryOperation rejected with
    \* ---- one invocation of collectPapersFromWeb ----
    ai,           \* the module-level client exists (an API key is configured)
    cpc,          \* "idle" | "search" | "kb" | "returned" | "thrown"
    kbVia,        \* the call site of the fallback: "none" | "parse" | "catch"
    caught,       \* the error of the outer catch block when it runs the fallback
    searchFailures, \* history: the errors of the search call, in order
    searchErr,    \* history: the error the retried search call ended with
    searchText,   \* history: response.text of the search call
    searchCalls,  \* history: the search calls issued
    kbCalls,      \* history: the knowledge-base calls issued
    kbEntered,    \* history: the calls of collectPapersFromKnowledgeBase
    kbErr,        \* history: the error the retried knowledge-base call ended with
    outcome,      \* what collectPapersFromWeb resolved or rejected with
    \* ---- the local store ----
    papersItem,   \* localStorage['bankai_papers'], parsed: a list of papers
    lastOp,       \* history: the last call of the store, and what it returned
    \* ---- one call of sanitizePapers ----
    rawPapers,    \* the argument of the call
    sanitized,    \* what the call returned or threw
    \* ---- one call of optimizeSearchQuery or of queryRepository ----
    settings,     \* storageService.getSettings(): provider, and is there a Groq key
    llm,          \* the frame of the call
    \* ---- the application: the daily batch jobs and the manual run ----
    task,         \* the frame of each asynchronous task
    lastBatchItem, \* localStorage['bankai_last_batch_run'], parsed: 0 when not set
    clock,        \* Date.now(), in hours
    status        \* the status of the collection manager of the dashboard

retryVars == <<rpc, caller, retries, initialDelay, r0, d0, rlog, failures,
               opValue, rValue, rErr>>

collectVars == <<ai, cpc, kbVia, caught, searchFailures, searchErr, searchText,
                 searchCalls, kbCalls, kbEntered, kbErr, outcome>>

storeVars == <<papersItem, lastOp>>

sanitizeVars == <<rawPapers, sanitized>>

llmVars == <<settings, llm>>

appVars == <<task, lastBatchItem, clock, status>>

\* the state of the parts that the retry wrapper, the pipeline and the calls
\* of the store on their own leave alone
restVars == <<sanitizeVars, llmVars, appVars>>

vars == <<retryVars, collectVars, storeVars, restVars>>

----------------------------------------------------------------------------
(* Bounds of the model *)

\* largest retry budget tried by the stand-alone runs of retryOperation
MaxRetries == 3

\* largest number of records in a JSON array of a response
MaxItems == 2

\* largest number of records in a response to a run of the application
MaxFound == 1

\* the clock is read at most MaxTicks times 12 hours after the load
MaxTicks == 2

----------------------------------------------------------------------------
(* Errors *)

NoError == [message |-> <<>>, status |-> 0, code |-> 0, name |-> "none"]

Err(name, msg, st, code) ==
    [message |-> msg, status |-> st, code |-> code, name |-> name]

\* the errors the remote call can reject with: each signature alone, and
\* errors with none of them
ProviderErrors ==
    { Err("ApiError", <<"429", "Too", "Many", "Requests">>, 0, 0),
      Err("ApiError", <<"Too", "Many", "Requests">>, 429, 0),
      Err("ApiError", <<"RESOURCE_EXHAUSTED">>, 0, 429),
      Err("ApiError", <<"503", "Service", "Unavailable">>, 0, 0),
      Err("ApiError", <<"The", "model", "is", "overloaded">>, 503, 0),
      Err("ApiError", <<"500", "Internal", "error">>, 500, 0),
      Err("Error", <<>>, 0, 0) }

\* String.prototype.includes on a message, for a word
Includes(msg, word) == \E i \in 1..Len(msg) : msg[i] = word

\* const isTransient = msg.includes('429') || error.status === 429
\*                     || error.code === 429 || msg.includes('503')
IsTransient(error) ==
    \/ Includes(error.message, "429")
    \/ error.status = 429
    \/ error.code = 429
    \/ Includes(error.message, "503")

ShouldRetry_OffByOne(n, error) == n >= 0 /\ IsTransient(error)

\* if (retries > 0 && isTransient)
ShouldRetry(n, error) == n > 0 /\ IsTransient(error)

NextDelay_Constant(ms) == ms

\* retryOperation(operation, retries - 1, initialDelay * 2)
NextDelay(ms) == ms * 2

----------------------------------------------------------------------------
(* JavaScript values of the loosely typed data the model returns *)

\* ty: "undefined" | "null" | "string" | "number" | "array"; s: the characters of
\* a string; n: the value of a number; items: the elements of an array
Js(ty, s, n) == [ty |-> ty, s |-> s, n |-> n, items |-> <<>>]
JsUndefined == Js("undefined", <<>>, 0)
JsStr(s)    == Js("string", s, 0)
JsNum(n)    == Js("number", <<>>, n)
JsNull      == Js("null", <<>>, 0)
JsArray(a)  == [Js("array", <<>>, 0) EXCEPT !.items = a]

\* the truthiness of v, as in  v || d  and  v && e
Truthy(v) ==
    CASE v.ty = "string" -> v.s # <<>>
      [] v.ty = "number" -> v.n # 0
      [] v.ty = "array"  -> TRUE
      [] OTHER           -> FALSE

StartsWith(s, prefix) ==
    Len(s) >= Len(prefix) /\ SubSeq(s, 1, Len(prefix)) = prefix

Min(S) == CHOOSE x \in S : \A y \in S : x <= y

UntitledResearch == <<"U", "n", "t", "i", "t", "l", "e", "d", " ",
                      "R", "e", "s", "e", "a", "r", "c", "h">>
Http == <<"h", "t", "t", "p">>

\* publication dates the model knows, and the instant each parses to, in
\* hours after the instant sanitizePapers runs at
DatePast     == <<"2", "0", "2", "4", "-", "0", "1", "-", "1", "5">>
DateTomorrow == <<"t", "o", "d", "a", "y", "+", "1">>
DateFuture   == <<"t", "o", "d", "a", "y", "+", "2">>

\* new Date(v).getTime(): [nan |-> TRUE] for an invalid date
DateGetTime(v) ==
    CASE v.ty = "number"                       -> [nan |-> FALSE, h |-> -400000]
      [] v.ty = "string" /\ v.s = DatePast     -> [nan |-> FALSE, h |-> -10000]
      [] v.ty = "string" /\ v.s = DateTomorrow -> [nan |-> FALSE, h |-> 24]
      [] v.ty = "string" /\ v.s = DateTomorrow \o <<"T", "0", "1">>
                                               -> [nan |-> FALSE, h |-> 25]
      [] v.ty = "string" /\ v.s = DateFuture   -> [nan |-> FALSE, h |-> 48]
      [] OTHER                                 -> [nan |-> TRUE, h |-> 0]

\* new Date().toISOString().split('T')[0]: today, which parses to an instant
\* that is not after the instant of the call
Today == JsStr(<<"t", "o", "d", "a", "y">>)
TodayGetTime == [nan |-> FALSE, h |-> 0]

----------------------------------------------------------------------------
(* sanitizePapers *)

\* a raw element of the parsed array: null, or an object with the fields read
RawNull == [isObject |-> FALSE, title |-> JsUndefined, url |-> JsUndefined,
            publicationDate |-> JsUndefined, authors |-> JsUndefined,
            bankingDomain |-> JsUndefined, aiDomain |-> JsUndefined,
            methodology |-> JsUndefined, citationCount |-> JsUndefined]
Raw(title, url, date) ==
    [RawNull EXCEPT !.isObject = TRUE, !.title = title, !.url = url,
                    !.publicationDate = date]

TypeError(msg) == Err("TypeError", msg, 0, 0)

\* p.authors on null, and p.url.startsWith on a truthy value that is no string
MapThrows(p) ==
    \/ ~p.isObject
    \/ Truthy(p.url) /\ p.url.ty # "string"

MapError(p) ==
    IF ~p.isObject
        THEN TypeError(<<"Cannot", "read", "properties", "of", "null">>)
        ELSE TypeError(<<"p.url.startsWith", "is", "not", "a", "function">>)

\* the members of the enumerations, each string as one unit
BankingDomain ==
    { JsStr(<<"Portfolio Optimization">>), JsStr(<<"Investment Risk Control">>),
      JsStr(<<"Fraud Detection">>), JsStr(<<"AML Compliance & Control">>),
      JsStr(<<"Customer Servicing (eKYC/CDD)">>), JsStr(<<"General Banking AI">>) }
AIDomain ==
    { JsStr(<<"LLM SFT">>), JsStr(<<"RLHF">>), JsStr(<<"Agent Designing">>),
      JsStr(<<"Agentic AI Pipeline">>), JsStr(<<"RAG Systems">>),
      JsStr(<<"Predictive Analytics">>) }
Methodology ==
    { JsStr(<<"Empirical Study">>), JsStr(<<"Theoretical Framework">>),
      JsStr(<<"Case Study">>), JsStr(<<"Survey/Review">>),
      JsStr(<<"Prototype/Implementation">>) }

ValidEnum_FirstMember(members, v, default) ==
    IF v \in members THEN v ELSE JsStr(<<"Portfolio Optimization">>)

\* Object.values(E).includes(v) ? v : default
ValidEnum(members, v, default) == IF v \in members THEN v ELSE default

\* String.prototype.trim: the string without the blanks at its ends
RECURSIVE Trim(_)
Trim(s) ==
    IF s = <<>> THEN s
    ELSE IF Head(s) = " " THEN Trim(Tail(s))
    ELSE IF s[Len(s)] = " " THEN Trim(SubSeq(s, 1, Len(s) - 1))
    ELSE s

\* String.prototype.split(','): the pieces between the commas
RECURSIVE Split(_)
Split(s) ==
    IF \A i \in 1..Len(s) : s[i] # "," THEN <<s>>
    ELSE LET i == Min({k \in 1..Len(s) : s[k] = ","})
         IN <<SubSeq(s, 1, i - 1)>> \o Split(SubSeq(s, i + 1, Len(s)))

\* String(a), for a string, null, undefined and a number of one digit
StringOf(a) ==
    CASE a.ty = "string"    -> a.s
      [] a.ty = "null"      -> <<"n", "u", "l", "l">>
      [] a.ty = "undefined" -> <<"u", "n", "d", "e", "f", "i", "n", "e", "d">>
      [] a.ty = "number"    ->
            <<(<<"0", "1", "2", "3", "4", "5", "6", "7", "8", "9">>)[a.n + 1]>>

\* encodeURIComponent(p.title || ''), behind the address of the search page
ScholarUrl(title) ==
    JsStr(<<"https://scholar.google.com/scholar?q=">>
          \o (IF Truthy(title) THEN StringOf(title) ELSE <<>>))

UnknownAuthor == <<"Unknown Author">>
NotEmpty(a) == Len(a) > 0

SafeAuthors_KeepEmpty(authors) ==
    LET list == CASE authors.ty = "array" ->
                        [i \in 1..Len(authors.items) |->
                            Trim(StringOf(authors.items[i]))]
                  [] authors.ty = "string" ->
                        Split(authors.s)
                  [] OTHER -> <<UnknownAuthor>>
    IN IF Len(list) = 0 THEN <<UnknownAuthor>> ELSE list

\* safeAuthors, as it is when the object literal is built
SafeAuthors(authors) ==
    LET list == CASE authors.ty = "array" ->
                        SelectSeq([i \in 1..Len(authors.items) |->
                                      Trim(StringOf(authors.items[i]))], NotEmpty)
                  [] authors.ty = "string" ->
                        IF Includes(authors.s, ",")
                            THEN [i \in 1..Len(Split(authors.s)) |->
                                     Trim(Split(authors.s)[i])]
                            ELSE <<Trim(authors.s)>>
                  [] OTHER -> <<UnknownAuthor>>
    IN IF Len(list) = 0 THEN <<UnknownAuthor>> ELSE list

\* typeof p.citationCount === 'number' ? p.citationCount : 0
CitationCount(v) == IF v.ty = "number" THEN v.n ELSE 0

\* the object literal of the map callback
MapPaper(p, id) ==
    [id |-> id,
     title |-> IF Truthy(p.title) THEN p.title ELSE JsStr(UntitledResearch),
     authors |-> SafeAuthors(p.authors),
     url |-> IF Truthy(p.url) /\ StartsWith(p.url.s, Http)
                THEN p.url ELSE ScholarUrl(p.title),
     publicationDate |-> IF Truthy(p.publicationDate)
                            THEN p.publicationDate ELSE Today,
     citationCount |-> CitationCount(p.citationCount),
     bankingDomain |-> ValidEnum(BankingDomain, p.bankingDomain,
                                 JsStr(<<"General Banking AI">>)),
     aiDomain |-> ValidEnum(AIDomain, p.aiDomain, JsStr(<<"Predictive Analytics">>)),
     methodology |-> ValidEnum(Methodology, p.methodology,
                               JsStr(<<"Theoretical Framework">>)),
     tags |-> <<>>,
     isFavorite |-> FALSE]

PubTime(paper) ==
    IF paper.publicationDate = Today THEN TodayGetTime
    ELSE DateGetTime(paper.publicationDate)

\* p.title.length < 5: the length of a string; undefined < 5 is false
TitleTooShort(title) == title.ty = "string" /\ Len(title.s) < 5

\* the filter callback; now is the instant now.setHours(now.getHours() + 24)
\* gives, in hours after the instant of the call: setHours works on the
\* local time, so it is 24 hours later unless the offset of the local time
\* changes in between
KeepPaper(paper, now) ==
    /\ ~(TitleTooShort(paper.title) \/ paper.title = JsStr(UntitledResearch))
    /\ ~(~PubTime(paper).nan /\ PubTime(paper).h > now)

RECURSIVE FilterSeq(_, _, _)
FilterSeq(s, i, now) ==
    IF i > Len(s) THEN <<>>
    ELSE (IF KeepPaper(s[i], now) THEN <<s[i]>> ELSE <<>>)
         \o FilterSeq(s, i + 1, now)

\* sanitizePapers(papers): [threw, err, papers]; the identifier of the i-th
\* mapped record is fresh, here i
sanitizePapers(papers, now) ==
    IF \E i \in 1..Len(papers) : MapThrows(papers[i])
        THEN LET i == CHOOSE k \in 1..Len(papers) :
                         /\ MapThrows(papers[k])
                         /\ \A j \in 1..(k - 1) : ~MapThrows(papers[j])
             IN [threw |-> TRUE, err |-> MapError(papers[i]), papers |-> <<>>,
                 now |-> now]
        ELSE [threw |-> FALSE, err |-> NoError, now |-> now,
              papers |-> FilterSeq([i \in 1..Len(papers) |-> MapPaper(papers[i], i)],
                                   1, now)]

----------------------------------------------------------------------------
(* The text of a response: a sequence of tokens *)

Tok(t, items) == [t |-> t, items |-> items]
Fence     == Tok("fence", <<>>)        \* three backticks
JsonWord  == Tok("json", <<>>)         \* the word json
Prose     == Tok("prose", <<>>)        \* words that are no JSON
JsonObject == Tok("object", <<>>)      \* the text of a JSON object
JsonArray(items) == Tok("array", items) \* the text of a JSON array

\* text.match(/```json\s*([\s\S]*?)\s*```/) with json = TRUE, and
\* text.match(/```\s*([\s\S]*?)\s*```/) with json = FALSE
BodyStart(i, json) == IF json THEN i + 2 ELSE i + 1
Closings(text, i, json) ==
    {j \in BodyStart(i, json)..Len(text) : text[j] = Fence}
Openings(text, json) ==
    {i \in 1..Len(text) :
        /\ text[i] = Fence
        /\ json => (i < Len(text) /\ text[i + 1] = JsonWord)
        /\ Closings(text, i, json) # {}}
Match(text, json) ==
    IF Openings(text, json) = {} THEN [found |-> FALSE, group |-> <<>>]
    ELSE LET i == Min(Openings(text, json))
             j == Min(Closings(text, i, json))
         IN [found |-> TRUE, group |-> SubSeq(text, BodyStart(i, json), j - 1)]

IsNotFence(tok) == tok # Fence

\* jsonMatch ? jsonMatch[1] : text.replace(/```/g, '')
JsonStr(text) ==
    IF Match(text, TRUE).found THEN Match(text, TRUE).group
    ELSE IF Match(text, FALSE).found THEN Match(text, FALSE).group
    ELSE SelectSeq(text, IsNotFence)

\* JSON.parse(str): [ok |-> FALSE] for a SyntaxError
JSONparse(str) ==
    IF Len(str) = 1 /\ str[1].t \in {"array", "object"}
        THEN [ok |-> TRUE, isArray |-> str[1].t = "array", items |-> str[1].items]
        ELSE [ok |-> FALSE, isArray |-> FALSE, items |-> <<>>]

SyntaxError == Err("SyntaxError", <<"Unexpected", "token">>, 0, 0)

----------------------------------------------------------------------------
(* The responses of the remote model *)

Chars_Alpha == <<"A", "l", "p", "h", "a">>
Chars_Beta  == <<"B", "e", "t", "a">>
Chars_Gamma == <<"G", "a", "m", "m", "a">>
HttpUrl     == Http \o <<":", "x">>

\* a well-formed record, one with a title of 4 characters, one with neither
\* title nor http address, one dated two days ahead, one whose url is a
\* number, and null
RawItems ==
    { Raw(JsStr(Chars_Alpha), JsStr(HttpUrl), JsStr(DatePast)),
      Raw(JsStr(Chars_Beta), JsUndefined, JsStr(DateTomorrow)),
      Raw(JsUndefined, JsStr(<<"x">>), JsUndefined),
      Raw(JsStr(Chars_Gamma), JsUndefined, JsStr(DateFuture)),
      Raw(JsStr(Chars_Gamma), JsNum(7), JsUndefined),
      RawNull }

RECURSIVE SeqsUpTo(_, _)
SeqsUpTo(S, n) ==
    IF n = 0 THEN {<<>>}
    ELSE SeqsUpTo(S, n - 1)
         \cup {Append(q, x) : q \in {t \in SeqsUpTo(S, n - 1) : Len(t) = n - 1},
                              x \in S}

RawArrays == SeqsUpTo(RawItems, MaxItems)
FewArrays == {<<>>, <<Raw(JsStr(Chars_Alpha), JsStr(HttpUrl), JsStr(DatePast))>>}

\* response.text of the search call: nothing; a JSON array in a json fence,
\* in a plain fence with words around it, bare, or behind an unclosed
\* fence; the array of three records of which one has a title of four
\* characters and a word that is no AI domain; and texts that hold no JSON
\* array
SearchTexts ==
    {<<>>}
    \cup {<<Fence, JsonWord, JsonArray(a), Fence>> : a \in RawArrays}
    \cup {<<Fence, JsonWord,
            JsonArray(<<Raw(JsStr(Chars_Alpha), JsStr(HttpUrl), JsStr(DatePast)),
                        [Raw(JsStr(Chars_Beta), JsStr(HttpUrl), JsStr(DatePast))
                            EXCEPT !.aiDomain = JsStr(<<"Deep Learning">>)],
                        [Raw(JsStr(Chars_Gamma), JsUndefined, JsStr(DatePast))
                            EXCEPT !.aiDomain = JsStr(<<"Deep Learning">>)]>>),
            Fence>>}
    \cup {<<Prose, Fence, JsonArray(a), Fence, Prose>> : a \in SeqsUpTo(RawItems, 1)}
    \cup {<<JsonArray(a)>> : a \in FewArrays}
    \cup {<<Fence, JsonArray(a)>> : a \in FewArrays}
    \cup {<<Fence, JsonWord, JsonArray(a)>> : a \in FewArrays}
    \cup {<<Prose, JsonArray(a)>> : a \in FewArrays}
    \cup {<<Fence, Prose, JsonArray(a), Fence>> : a \in FewArrays}
    \cup { <<Prose>>, <<Fence, JsonWord, Fence>>, <<Fence, JsonWord, Prose, Fence>>,
           <<Fence, JsonWord, JsonObject, Fence>>, <<JsonObject>> }

\* response.text of the knowledge-base call (responseMimeType is JSON, but
\* the text is parsed whatever it is): arrays of no or one record, and of
\* two records of which one is kept
KBTexts ==
    {<<>>, <<Prose>>, <<JsonObject>>}
    \cup {<<JsonArray(a)>> : a \in SeqsUpTo(RawItems, 1)}
    \cup {<<JsonArray(a \o a)>> : a \in FewArrays}
    \cup {<<Fence, JsonWord, JsonArray(a), Fence>> : a \in FewArrays}

TestValues == { <<Prose>>, <<Fence, JsonWord, Fence>> }

OpValues(c) ==
    CASE c = "search" -> SearchTexts
      [] c = "kb"     -> KBTexts
      [] OTHER        -> TestValues

----------------------------------------------------------------------------
(* retryOperation *)

CallEv       == [ev |-> "call", ms |-> 0]
DelayEv(ms)  == [ev |-> "delay", ms |-> ms]

\* one more remote call issued on behalf of c
CountCall(c) ==
    /\ searchCalls' = IF c = "search" THEN searchCalls + 1 ELSE searchCalls
    /\ kbCalls' = IF c = "kb" THEN kbCalls + 1 ELSE kbCalls

\* the frame of a call retryOperation(operation, n, ms) by c; the body starts
\* with operation()
RetryFrame(c, n, ms) ==
    /\ rpc' = "calling"
    /\ caller' = c
    /\ retries' = n
    /\ initialDelay' = ms
    /\ r0' = n
    /\ d0' = ms
    /\ rlog' = <<CallEv>>
    /\ failures' = <<>>
    /\ opValue' = <<>>
    /\ rValue' = <<>>
    /\ rErr' = NoError
    /\ CountCall(c)

\* the frame is gone: its caller has consumed the result
DropFrame ==
    /\ rpc' = "idle"
    /\ caller' = "test"
    /\ retries' = 0
    /\ initialDelay' = 0
    /\ r0' = 0
    /\ d0' = 0
    /\ rlog' = <<>>
    /\ failures' = <<>>
    /\ opValue' = <<>>
    /\ rValue' = <<>>
    /\ rErr' = NoError

\* return await operation(): the operation resolves
OperationResolves ==
    /\ rpc = "calling"
    /\ \E v \in OpValues(caller) :
          /\ opValue' = v
          /\ rValue' = v
    /\ rpc' = "returned"
    /\ UNCHANGED <<caller, retries, initialDelay, r0, d0, rlog, failures, rErr>>
    /\ UNCHANGED <<collectVars, storeVars, restVars>>

\* catch (error): the operation rejects; either the delay starts or the
\* error is thrown again
OperationRejects ==
    /\ rpc = "calling"
    /\ \E error \in ProviderErrors :
          /\ failures' = Append(failures, error)
          /\ IF ShouldRetry(retries, error)
                THEN /\ rpc' = "waiting"
                     /\ rlog' = Append(rlog, DelayEv(initialDelay))
                     /\ rErr' = rErr
                ELSE /\ rpc' = "thrown"
                     /\ rlog' = rlog
                     /\ rErr' = error
    /\ UNCHANGED <<caller, retries, initialDelay, r0, d0, opValue, rValue>>
    /\ UNCHANGED <<collectVars, storeVars, restVars>>

\* await delay(initialDelay) is over: the recursive call, which starts with
\* operation()
DelayElapses ==
    /\ rpc = "waiting"
    /\ rpc' = "calling"
    /\ retries' = retries - 1
    /\ initialDelay' = NextDelay(initialDelay)
    /\ rlog' = Append(rlog, CallEv)
    /\ CountCall(caller)
    /\ UNCHANGED <<caller, r0, d0, failures, opValue, rValue, rErr>>
    /\ UNCHANGED <<ai, cpc, kbVia, caught, searchFailures, searchErr, searchText,
                   kbEntered, kbErr, outcome, storeVars, restVars>>

\* a stand-alone call of retryOperation
RetryOperation ==
    /\ rpc = "idle"
    /\ cpc = "idle"
    /\ \E n \in 0..MaxRetries, ms \in {1000, 5000, 20000} :
          RetryFrame("test", n, ms)
    /\ UNCHANGED <<ai, cpc, kbVia, caught, searchFailures, searchErr, searchText,
                   kbEntered, kbErr, outcome, storeVars, restVars>>

----------------------------------------------------------------------------
(* collectPapersFromWeb and collectPapersFromKnowledgeBase *)

SearchRetries == 2
SearchInitialDelay == 20000
KBRetries == 1
KBInitialDelay == 5000

ApiKeyError == Err("Error", <<"API", "Key", "not", "configured.">>, 0, 0)
EmptyResponseError ==
    Err("Error", <<"Empty", "response", "from", "AI", "model">>, 0, 0)
QuotaExceededError ==
    Err("Error", <<"Quota", "Exceeded", "(", "429", ")", ":", "The", "research",
                   "agent", "has", "hit", "the", "daily/minute", "limit.">>, 0, 0)

\* what a block of the function decides: to return papers, to throw err, or
\* to call the fallback from the call site via (err is then the caught error)
Return(papers) ==
    [next |-> "returned", via |-> "none", papers |-> papers, err |-> NoError]
Throw(error) ==
    [next |-> "thrown", via |-> "none", papers |-> <<>>, err |-> error]
Fallback(via, error) ==
    [next |-> "kb", via |-> via, papers |-> <<>>, err |-> error]

IsQuota_MessageOnly(error) == Includes(error.message, "429")

\* const isQuota = msg.includes('429') || error.code === 429
IsQuota(error) == Includes(error.message, "429") \/ error.code = 429

\* the outer catch block, up to its call of the fallback
CatchBlock(error) ==
    IF IsQuota(error) THEN Throw(QuotaExceededError)
    ELSE Fallback("catch", error)

ParseFailed_ReturnEmpty == Return(<<>>)

\* the inner catch block: the text of the search holds no JSON
ParseFailed == Fallback("parse", NoError)

\* if (!Array.isArray(rawData)) return []
NotAnArray == Return(<<>>)

\* the try block once the retried search call has settled (the pipeline is
\* run on a day of 24 hours)
TryBlock(settled, error, text) ==
    IF settled = "thrown" THEN CatchBlock(error)
    ELSE IF text = <<>> THEN CatchBlock(EmptyResponseError)
    ELSE LET parsed == JSONparse(JsonStr(text)) IN
         IF ~parsed.ok THEN ParseFailed
         ELSE IF ~parsed.isArray THEN NotAnArray
         ELSE LET clean == sanitizePapers(parsed.items, 24) IN
              IF clean.threw THEN CatchBlock(clean.err)
              ELSE Return(clean.papers)

KBReturn(papers) == [threw |-> FALSE, err |-> NoError, papers |-> papers]

\* the catch block of the fallback:
\* if ((e as any).message?.includes('429')) throw e; return []
KBCatch(e) ==
    IF Includes(e.message, "429")
        THEN [threw |-> TRUE, err |-> e, papers |-> <<>>]
        ELSE KBReturn(<<>>)

\* collectPapersFromKnowledgeBase once its retried call has settled;
\* sanitizePapers of a value that is no array throws (rawData.map)
KBBody(settled, error, text) ==
    IF settled = "thrown" THEN KBCatch(error)
    ELSE IF text = <<>> THEN KBReturn(<<>>)
    ELSE LET parsed == JSONparse(text) IN
         IF ~parsed.ok THEN KBCatch(SyntaxError)
         ELSE IF ~parsed.isArray
            THEN KBCatch(TypeError(<<"papers.map", "is", "not", "a", "function">>))
         ELSE LET clean == sanitizePapers(parsed.items, 24) IN
              IF clean.threw THEN KBCatch(clean.err)
              ELSE KBReturn(clean.papers)

\* what the caller of the fallback does with its result kb: the call in the
\* inner catch block lies in the outer try block; the call in the outer
\* catch block throws the caught error when the fallback throws
AfterFallback(via, error, kb) ==
    IF via = "parse"
        THEN IF kb.threw THEN CatchBlock(kb.err) ELSE Return(kb.papers)
        ELSE IF kb.threw THEN Throw(error) ELSE Return(kb.papers)

\* carry out a decision: call collectPapersFromKnowledgeBase, which returns
\* [] at once without a client and starts its retried call otherwise, or
\* settle the invocation
Carry(dec) ==
    IF dec.next = "kb" /\ ai
        THEN /\ RetryFrame("kb", KBRetries, KBInitialDelay)
             /\ cpc' = "kb"
             /\ kbVia' = dec.via
             /\ caught' = dec.err
             /\ kbEntered' = kbEntered + 1
             /\ outcome' = outcome
        ELSE LET fin == IF dec.next = "kb"
                           THEN AfterFallback(dec.via, dec.err, KBReturn(<<>>))
                           ELSE dec
             IN /\ DropFrame
                /\ cpc' = fin.next
                /\ kbVia' = kbVia
                /\ caught' = caught
                /\ kbEntered' = IF dec.next = "kb" THEN kbEntered + 1 ELSE kbEntered
                /\ outcome' = [kind |-> fin.next, papers |-> fin.papers,
                               err |-> fin.err]
                /\ UNCHANGED <<searchCalls, kbCalls>>

\* collectPapersFromWeb(query, sources, afterDate), up to its first await
CollectPapersFromWeb ==
    /\ cpc = "idle"
    /\ rpc = "idle"
    /\ IF ~ai
          THEN /\ cpc' = "thrown"
               /\ outcome' = [kind |-> "thrown", papers |-> <<>>,
                              err |-> ApiKeyError]
               /\ UNCHANGED retryVars
               /\ UNCHANGED <<searchCalls, kbCalls>>
          ELSE /\ RetryFrame("search", SearchRetries, SearchInitialDelay)
               /\ cpc' = "search"
               /\ outcome' = outcome
    /\ UNCHANGED <<ai, kbVia, caught, searchFailures, searchErr, searchText,
                   kbEntered, kbErr, storeVars, restVars>>

\* the retried search call has settled: the rest of the try block and the
\* catch blocks, up to the next await or the end
SearchSettles ==
    /\ cpc = "search"
    /\ rpc \in {"returned", "thrown"}
    /\ searchFailures' = failures
    /\ searchErr' = rErr
    /\ searchText' = rValue
    /\ Carry(TryBlock(rpc, rErr, rValue))
    /\ UNCHANGED <<ai, kbErr, storeVars, restVars>>

\* the retried knowledge-base call has settled: the rest of
\* collectPapersFromKnowledgeBase and of its caller
KBSettles ==
    /\ cpc = "kb"
    /\ rpc \in {"returned", "thrown"}
    /\ kbErr' = rErr
    /\ Carry(AfterFallback(kbVia, caught, KBBody(rpc, rErr, rValue)))
    /\ UNCHANGED <<ai, searchFailures, searchErr, searchText, storeVars, restVars>>

----------------------------------------------------------------------------
(* storageService: the papers of the local store *)

UpperLetters == <<"A", "B", "C", "D", "E", "F", "G", "H", "I", "J", "K", "L", "M",
                  "N", "O", "P", "Q", "R", "S", "T", "U", "V", "W", "X", "Y", "Z">>
LowerLetters == <<"a", "b", "c", "d", "e", "f", "g", "h", "i", "j", "k", "l", "m",
                  "n", "o", "p", "q", "r", "s", "t", "u", "v", "w", "x", "y", "z">>

LowerOf == [i \in 1..Len(UpperLetters) |-> LowerLetters[i]]
UpperIndex == [c \in {UpperLetters[i] : i \in 1..Len(UpperLetters)} |->
                 CHOOSE i \in 1..Len(UpperLetters) : UpperLetters[i] = c]

LowerChar(c) == IF c \in DOMAIN UpperIndex THEN LowerOf[UpperIndex[c]] ELSE c

\* String.prototype.toLowerCase
toLowerCase(s) == [i \in 1..Len(s) |-> LowerChar(s[i])]

\* getPapers: the stored list (none when the key is not set), each record
\* with the defaults of the read; tags are lists in every record written
getPapersOf(item) ==
    [i \in 1..Len(item) |->
        [item[i] EXCEPT !.title = IF Truthy(@) THEN @ ELSE JsStr(<<"Untitled">>)]]

getPapers == getPapersOf(papersItem)

SameTitleOrUrl_CaseSensitive(p, paper) ==
    \/ p.title.s = paper.title.s
    \/ (Truthy(p.url) /\ Truthy(paper.url) /\ p.url = paper.url)

SameTitleOrUrl_UrlOnly(p, paper) ==
    Truthy(p.url) /\ Truthy(paper.url) /\ p.url = paper.url

\* p.title.toLowerCase() === paper.title.toLowerCase()
\*   || (p.url && paper.url && p.url === paper.url)
SameTitleOrUrl(p, paper) ==
    \/ toLowerCase(p.title.s) = toLowerCase(paper.title.s)
    \/ (Truthy(p.url) /\ Truthy(paper.url) /\ p.url = paper.url)

\* toLowerCase is no function of a title that is no string
LowerThrows(p, paper) == p.title.ty # "string" \/ paper.title.ty # "string"

\* papers.some(...): "throw" when the callback throws before it finds a
\* duplicate
isDuplicate(papers, paper) ==
    LET hits == {k \in 1..Len(papers) :
                    LowerThrows(papers[k], paper) \/ SameTitleOrUrl(papers[k], paper)}
    IN IF hits = {} THEN "false"
       ELSE IF LowerThrows(papers[Min(hits)], paper) THEN "throw"
       ELSE "true"

NoOp == [op |-> "none", paper |-> RawNull, id |-> 0, tag |-> "", result |-> "none"]
SaveOp(paper, result) ==
    [op |-> "savePaper", paper |-> paper, id |-> 0, tag |-> "", result |-> result]
ToggleOp(id) ==
    [op |-> "toggleFavorite", paper |-> RawNull, id |-> id, tag |-> "",
     result |-> "updated"]
TagOp(id, tag) ==
    [op |-> "addTag", paper |-> RawNull, id |-> id, tag |-> tag, result |-> "updated"]

\* savePaper(paper), as an effect on the store with its result
savePaper(paper) ==
    LET papers == getPapers
        dup == isDuplicate(papers, paper)
    IN IF dup = "false"
          THEN /\ papersItem' = <<paper>> \o papers
               /\ lastOp' = SaveOp(paper, "true")
          ELSE /\ papersItem' = papersItem
               /\ lastOp' = SaveOp(paper, IF dup = "true" THEN "false" ELSE "throw")

toggleFavorite_All(id) ==
    /\ papersItem' = [i \in 1..Len(getPapers) |->
                        [getPapers[i] EXCEPT !.isFavorite = ~@]]
    /\ lastOp' = ToggleOp(id)

\* toggleFavorite(id)
toggleFavorite(id) ==
    /\ papersItem' = [i \in 1..Len(getPapers) |->
                        IF getPapers[i].id = id
                            THEN [getPapers[i] EXCEPT !.isFavorite = ~@]
                            ELSE getPapers[i]]
    /\ lastOp' = ToggleOp(id)

\* addTag(id, tag)
addTag(id, tag) ==
    /\ papersItem' = [i \in 1..Len(getPapers) |->
                        IF getPapers[i].id = id /\ ~Includes(getPapers[i].tags, tag)
                            THEN [getPapers[i] EXCEPT !.tags = Append(@, tag)]
                            ELSE getPapers[i]]
    /\ lastOp' = TagOp(id, tag)

\* the records the callers of the store hold: papers with a title that is a
\* string of five characters or more
Chars_ALPHA == <<"A", "L", "P", "H", "A">>
StoreTitles == {Chars_Alpha, Chars_ALPHA, Chars_Gamma}
StoreUrls == {<<>>, HttpUrl, Http \o <<":", "y">>}
StoreIds == {1, 2}
StoreTags == {"llm"}

StorePapers ==
    {[id |-> id, title |-> JsStr(t), url |-> JsStr(u), publicationDate |-> Today,
      tags |-> <<>>, isFavorite |-> FALSE] :
        id \in StoreIds, t \in StoreTitles, u \in StoreUrls}

SavePaper ==
    /\ \E paper \in StorePapers : savePaper(paper)
    /\ UNCHANGED <<retryVars, collectVars, restVars>>

ToggleFavorite ==
    /\ \E id \in StoreIds : toggleFavorite(id)
    /\ UNCHANGED <<retryVars, collectVars, restVars>>

AddTag ==
    /\ \E id \in StoreIds, tag \in StoreTags : addTag(id, tag)
    /\ UNCHANGED <<retryVars, collectVars, restVars>>

----------------------------------------------------------------------------
(* The application: runDailyBatchJob (from initApp and handleLogin) and the *)
(* manual run of the dashboard (handleRunCollection).  A task runs up to its *)
(* next await in one step; the tasks interleave at their awaits.            *)

\* initApp and handleLogin call runDailyBatchJob (handleLogin when the user,
\* signed out, signs in); dashboard is the handleRunCollection of the
\* collection manager that is mounted, detached that of a collection manager
\* that was unmounted while it ran
Tasks == {"initApp", "handleLogin", "dashboard", "detached"}

\* const ONE_DAY_MS = 24 * 60 * 60 * 1000, in hours
ONE_DAY_MS == 24

\* the clock when the page is loaded; it is read every 12 hours
StartClock == 3 * ONE_DAY_MS

\* the last-run item can hold 0 or the time of an earlier run
LastRuns == {0, StartClock - ONE_DAY_MS, StartClock - ONE_DAY_MS + 1}

\* the frame of a task: pc "idle" | "delay" | "optimize" | "collect" | "done";
\* now, last: the constants of runDailyBatchJob; ret: what it returned;
\* raised: it rejected.  History: gate, how the invocation passed the gate;
\* collects, delays: the calls of collectPapersFromWeb and of delay; overlap:
\* another task was in flight during the invocation; end: how the collection
\* ended ("papers" | "empty" | "quota" | "error", and "savePaper" when a save
\* threw); got, ins: the titles, in lower case, that savePaper was called
\* with, and that it stored; sets: the calls of setStatus in the last step
\* of the task
NoTask == [pc |-> "idle", now |-> 0, last |-> 0, ret |-> 0, raised |-> FALSE,
           gate |-> "none", collects |-> 0, delays |-> 0, overlap |-> FALSE,
           end |-> "none", got |-> {}, ins |-> {}, sets |-> <<>>]

InFlight(t) == task[t].pc \in {"delay", "optimize", "collect"}

\* the frames once t has started with the frame f: t and the tasks in flight
\* have overlapped
Started(t, f) ==
    [u \in Tasks |->
        IF u = t THEN [f EXCEPT !.overlap = \E v \in Tasks \ {t} : InFlight(v)]
        ELSE IF InFlight(u) /\ f.pc # "done" THEN [task[u] EXCEPT !.overlap = TRUE]
        ELSE task[u]]

\* the records the search of a run of the application returns: two records
\* with the same title but for case, a third with the address of the first,
\* and one whose title is a number
AppItems ==
    { Raw(JsStr(Chars_Alpha), JsStr(HttpUrl), JsStr(DatePast)),
      Raw(JsStr(<<"A", "L", "P", "H", "A">>), JsUndefined, JsStr(DatePast)),
      Raw(JsStr(Chars_Gamma), JsStr(HttpUrl), JsUndefined),
      Raw(JsNum(7), JsUndefined, JsUndefined) }

\* collectPapersFromWeb from its call to its end, when its search call ends
\* as s and its knowledge-base call, if issued, as k
collectPapersFromWeb(client, s, k) ==
    IF ~client THEN Throw(ApiKeyError)
    ELSE LET dec == TryBlock(s.settled, s.err, s.text) IN
         IF dec.next # "kb" THEN dec
         ELSE AfterFallback(dec.via, dec.err, KBBody(k.settled, k.err, k.text))

\* what an invocation of collectPapersFromWeb can end in: its retried
\* search call fails with an error of the provider or returns a text, and so
\* does its retried knowledge-base call
ClientResults ==
    LET Settled(error, text) ==
            [settled |-> IF error = NoError THEN "returned" ELSE "thrown",
             err |-> error, text |-> text]
        searchEnds ==
            {Settled(e, <<>>) : e \in ProviderErrors}
            \cup {Settled(NoError, <<Fence, JsonWord, JsonArray(a), Fence>>) :
                     a \in SeqsUpTo(AppItems, MaxFound)}
            \cup {Settled(NoError, <<>>), Settled(NoError, <<Prose>>),
                  Settled(NoError, <<JsonObject>>)}
        kbEnds ==
            {Settled(e, <<>>) : e \in ProviderErrors}
            \cup {Settled(NoError, <<JsonArray(a)>>) : a \in SeqsUpTo(AppItems, 1)}
            \cup {Settled(NoError, <<Prose>>)}
    IN {collectPapersFromWeb(TRUE, s, k) : s \in searchEnds, k \in kbEnds}

CollectResults(client) ==
    IF client THEN ClientResults
    ELSE LET none == [settled |-> "returned", err |-> NoError, text |-> <<>>]
         IN {collectPapersFromWeb(FALSE, none, none)}

SaveLoop_CountAll(item, papers, i, acc) ==
    LET stored == {k \in 1..Len(papers) :
                      isDuplicate(getPapersOf(item), papers[k]) = "false"}
    IN [item |-> (IF stored = {} THEN <<>> ELSE <<papers[1]>>) \o item,
        count |-> Len(papers), threw |-> FALSE,
        got |-> {toLowerCase(papers[k].title.s) : k \in 1..Len(papers)},
        ins |-> {toLowerCase(papers[k].title.s) : k \in stored \cap {1}}]

SaveLoop_NoCheck(item, papers, i, acc) ==
    [item |-> [k \in 1..Len(papers) |-> papers[Len(papers) + 1 - k]] \o item,
     count |-> Len(papers), threw |-> FALSE,
     got |-> {toLowerCase(papers[k].title.s) : k \in 1..Len(papers)},
     ins |-> {toLowerCase(papers[k].title.s) : k \in 1..Len(papers)}]

\* for (const p of fullPapers) { const saved = storageService.savePaper(p);
\* if (saved) count++ }, from the i-th record on: the stored list, the count
\* and whether savePaper threw
RECURSIVE SaveLoop(_, _, _, _)
SaveLoop(item, papers, i, acc) ==
    IF i > Len(papers) THEN [acc EXCEPT !.item = item]
    ELSE LET dup == isDuplicate(getPapersOf(item), papers[i])
             t == toLowerCase(papers[i].title.s)
         IN IF dup = "throw" THEN [acc EXCEPT !.item = item, !.threw = TRUE]
            ELSE IF dup = "true"
                THEN SaveLoop(item, papers, i + 1, [acc EXCEPT !.got = @ \cup {t}])
            ELSE SaveLoop(<<papers[i]>> \o getPapersOf(item), papers, i + 1,
                          [acc EXCEPT !.count = @ + 1, !.got = @ \cup {t},
                                      !.ins = @ \cup {t}])

NoSaves == [item |-> <<>>, count |-> 0, threw |-> FALSE, got |-> {}, ins |-> {}]

GateClosed_ZeroOnly(now, last) == now - last < ONE_DAY_MS /\ last = 0

\* if (now - lastRunTimestamp < ONE_DAY_MS && lastRunTimestamp !== 0) return 0
GateClosed(now, last) == now - last < ONE_DAY_MS /\ last # 0

\* the try block around the call and the saves: what was saved, and the
\* error its catch block receives
InnerTry(res, item) ==
    LET saved == IF res.next = "returned" THEN SaveLoop(item, res.papers, 1, NoSaves)
                 ELSE [NoSaves EXCEPT !.item = item]
    IN [saved |-> saved,
        caught |-> IF res.next = "thrown" THEN res.err
                   ELSE IF saved.threw
                       THEN TypeError(<<"toLowerCase", "is", "not", "a", "function">>)
                   ELSE NoError,
        end |-> IF saved.threw THEN "savePaper"
                ELSE IF res.next = "returned"
                    THEN (IF res.papers = <<>> THEN "empty" ELSE "papers")
                ELSE IF res.err = QuotaExceededError THEN "quota"
                ELSE "error"]

\* if (e.message.includes('Quota') || e.message.includes('429')) break
StopsBatch(e) == Includes(e.message, "Quota") \/ Includes(e.message, "429")

BatchTail_StampOnSuccess(res, item) ==
    LET try == InnerTry(res, item)
    IN [saved |-> try.saved, end |-> try.end,
        stopped |-> try.caught # NoError /\ StopsBatch(try.caught),
        stamp |-> try.caught = NoError, raised |-> FALSE]

BatchTail_Rethrow(res, item) ==
    LET try == InnerTry(res, item)
    IN [saved |-> try.saved, end |-> try.end,
        stopped |-> try.caught # NoError /\ StopsBatch(try.caught),
        stamp |-> TRUE,
        raised |-> try.caught # NoError /\ ~StopsBatch(try.caught)]

\* runDailyBatchJob once collectPapersFromWeb has settled with res: the try
\* block, its catch block (which stops the loop over the domains or lets it
\* go on; it has one round), setLastBatchRun(now) and return totalNewCount
BatchTail(res, item) ==
    LET try == InnerTry(res, item)
    IN [saved |-> try.saved, end |-> try.end,
        stopped |-> try.caught # NoError /\ StopsBatch(try.caught),
        stamp |-> TRUE, raised |-> FALSE]

\* runDailyBatchJob(), called when the page is loaded or the user signs in,
\* up to return 0 or to await delay(20000)
RunDailyBatchJob(t) ==
    /\ task[t].pc = "idle"
    /\ LET frame == [NoTask EXCEPT !.now = clock, !.last = lastBatchItem] IN
       task' = IF GateClosed(clock, lastBatchItem)
                  THEN Started(t, [frame EXCEPT !.pc = "done", !.gate = "closed"])
                  ELSE Started(t, [frame EXCEPT !.pc = "delay", !.gate = "open",
                                                !.delays = 1])
    /\ UNCHANGED <<lastBatchItem, clock, status>>
    /\ UNCHANGED <<retryVars, collectVars, storeVars, sanitizeVars, llmVars>>

\* the delay is over: afterDate, domains, sources, and the call of
\* collectPapersFromWeb
BatchDelayElapses(t) ==
    /\ task[t].pc = "delay"
    /\ task' = [task EXCEPT ![t].pc = "collect", ![t].collects = @ + 1]
    /\ UNCHANGED <<lastBatchItem, clock, status>>
    /\ UNCHANGED <<retryVars, collectVars, storeVars, sanitizeVars, llmVars>>

\* collectPapersFromWeb has settled: the rest of runDailyBatchJob
BatchCollectSettles(t) ==
    /\ task[t].pc = "collect"
    /\ task[t].gate = "open"
    /\ \E res \in CollectResults(ai) : \E tail \in {BatchTail(res, papersItem)} :
          /\ papersItem' = tail.saved.item
          /\ lastBatchItem' = IF tail.stamp THEN task[t].now ELSE lastBatchItem
          /\ task' = [task EXCEPT ![t].pc = "done",
                                  ![t].ret = tail.saved.count,
                                  ![t].raised = tail.raised,
                                  ![t].end = tail.end,
                                  ![t].got = tail.saved.got,
                                  ![t].ins = tail.saved.ins]
    /\ UNCHANGED <<lastOp, clock, status>>
    /\ UNCHANGED <<retryVars, collectVars, sanitizeVars, llmVars>>

\* handleRunCollection(), with a topic, up to its first await; the button is
\* enabled when the status is idle, completed or error
HandleRunCollection(t) ==
    /\ task[t].pc \in {"idle", "done"}
    /\ status \in {"idle", "completed", "error"}
    /\ \E useLLMOptimization \in BOOLEAN :
          IF useLLMOptimization
              THEN /\ status' = "optimizing"
                   /\ task' = Started(t, [NoTask EXCEPT !.pc = "optimize",
                                                        !.gate = "manual",
                                                        !.sets = <<"optimizing">>])
              ELSE /\ status' = "searching"
                   /\ task' = Started(t, [NoTask EXCEPT !.pc = "collect",
                                                        !.gate = "manual",
                                                        !.collects = 1,
                                                        !.sets = <<"optimizing",
                                                                   "searching">>])
    /\ UNCHANGED <<lastBatchItem, clock>>
    /\ UNCHANGED <<retryVars, collectVars, storeVars, sanitizeVars, llmVars>>

\* optimizeSearchQuery has returned: the call of collectPapersFromWeb.  The
\* setStatus of a component that was unmounted changes no status
ManualOptimizeSettles(t) ==
    /\ task[t].pc = "optimize"
    /\ status' = IF t = "dashboard" THEN "searching" ELSE status
    /\ task' = [task EXCEPT ![t].pc = "collect", ![t].collects = @ + 1,
                            ![t].sets = <<"searching">>]
    /\ UNCHANGED <<lastBatchItem, clock>>
    /\ UNCHANGED <<retryVars, collectVars, storeVars, sanitizeVars, llmVars>>

SetStatusCalls_NoSaving(end) ==
    IF end = "papers" THEN <<"completed">> ELSE <<"error">>

\* the calls of setStatus once collectPapersFromWeb has settled: 'error' for
\* no records and in the catch block, 'saving' before the saves and
\* 'completed' after them
SetStatusCalls(end) ==
    CASE end = "papers"    -> <<"saving", "completed">>
      [] end = "savePaper" -> <<"saving", "error">>
      [] OTHER             -> <<"error">>

\* collectPapersFromWeb has settled: the rest of handleRunCollection
ManualCollectSettles(t) ==
    /\ task[t].pc = "collect"
    /\ task[t].gate = "manual"
    /\ \E res \in CollectResults(ai) : \E try \in {InnerTry(res, papersItem)} :
          LET sets == SetStatusCalls(try.end)
          IN /\ papersItem' = try.saved.item
             /\ status' = IF t = "dashboard" THEN sets[Len(sets)] ELSE status
             /\ task' = [task EXCEPT ![t].pc = "done", ![t].ret = try.saved.count,
                                     ![t].end = try.end,
                                     ![t].got = try.saved.got,
                                     ![t].ins = try.saved.ins,
                                     ![t].sets = sets]
    /\ UNCHANGED <<lastOp, lastBatchItem, clock>>
    /\ UNCHANGED <<retryVars, collectVars, sanitizeVars, llmVars>>

\* the user leaves the page of the collection manager and comes back to it
\* (Link, Route path="/collect"): the component is unmounted and a new one
\* is mounted, with the status 'idle'; a run in flight goes on
Navigate ==
    /\ InFlight("dashboard") \/ status # "idle"
    /\ ~InFlight("detached")
    /\ status' = "idle"
    /\ task' = IF InFlight("dashboard")
                  THEN [task EXCEPT !["detached"] = task["dashboard"],
                                    !["dashboard"] = NoTask]
                  ELSE [task EXCEPT !["dashboard"] = NoTask]
    /\ UNCHANGED <<lastBatchItem, clock>>
    /\ UNCHANGED <<retryVars, collectVars, storeVars, sanitizeVars, llmVars>>

\* time passes
Tick ==
    /\ clock + 12 <= StartClock + MaxTicks * 12
    /\ clock' = clock + 12
    /\ UNCHANGED <<task, lastBatchItem, status>>
    /\ UNCHANGED <<retryVars, collectVars, storeVars, sanitizeVars, llmVars>>

----------------------------------------------------------------------------
(* callGroqAPI, optimizeSearchQuery and queryRepository *)

DEFAULT_SETTINGS == [provider |-> "gemini", groqApiKey |-> FALSE]

\* the frame of a call: fn "none" | "optimize" | "query"; pc "idle" | "groq" |
\* "gemini" | "returned" | "thrown"; fault: how the provider call failed
NoCall == [fn |-> "none", pc |-> "idle", topic |-> <<>>, calls |-> 0,
           fault |-> "none", err |-> NoError, result |-> <<>>]

Topics == { <<"fraud", "models">>, <<"credit", "429", "scoring">> }

\* the texts a provider answers with: none, blanks only, and a text in blanks
ReplyTexts == { <<>>, <<" ">>, <<" ", "refined", "query", " ">> }

\* what the request of callGroqAPI ends in: fetch rejects, the response is
\* not ok (status and err.error.message), or it is ok with the content
GroqOutcomes ==
    { [kind |-> "reject", status |-> 0, message |-> <<"Failed", "to", "fetch">>,
       content |-> <<>>],
      [kind |-> "http", status |-> 429, message |-> <<"Rate", "limit", "reached">>,
       content |-> <<>>],
      [kind |-> "http", status |-> 500, message |-> <<"Internal", "error">>,
       content |-> <<>>] }
    \cup {[kind |-> "ok", status |-> 200, message |-> <<>>, content |-> c] :
             c \in ReplyTexts}

\* the error the try block of callGroqAPI throws or receives
GroqError(o) ==
    IF o.kind = "reject" THEN TypeError(o.message)
    ELSE IF o.kind = "http"
        THEN Err("Error", <<"Groq", "API", "Error:">> \o o.message, 0, 0)
    ELSE NoError

\* what callGroqAPI returns once its request has ended in o
callGroqAPI(o) ==
    IF o.kind = "ok" THEN o.content
    ELSE <<"Provider", "Error:">> \o GroqError(o).message

SystemOverloaded ==
    <<"System", "is", "currently", "overloaded", "(Quota", "Limit).", "Please",
      "try", "again", "in", "a", "few", "minutes.">>
ErrorAnalyzing == <<"Error", "analyzing", "repository.">>

\* the call of fn up to its first await, or to its end
StartCall(fn, topic) ==
    LET frame == [NoCall EXCEPT !.fn = fn, !.topic = topic] IN
    IF settings.provider = "groq"
        THEN IF ~settings.groqApiKey
                THEN [frame EXCEPT !.pc = "returned", !.fault = "credentials",
                                   !.result = <<"Error:", "Groq", "API", "Key", "is",
                                                "missing", "in", "Settings.">>]
                ELSE [frame EXCEPT !.pc = "groq", !.calls = 1]
        ELSE IF ~ai
                THEN [frame EXCEPT !.pc = "returned", !.fault = "credentials",
                                   !.result = IF fn = "optimize" THEN topic
                                              ELSE <<"Service", "unavailable",
                                                     "(Missing", "API", "Key).">>]
                ELSE [frame EXCEPT !.pc = "gemini", !.calls = 1]

\* optimizeSearchQuery(topic, dateRange)
OptimizeSearchQuery ==
    /\ llm.pc \in {"idle", "returned"}
    /\ \E topic \in Topics : llm' = StartCall("optimize", topic)
    /\ UNCHANGED <<settings, retryVars, collectVars, storeVars, sanitizeVars, appVars>>

\* queryRepository(history, userMessage, papers)
QueryRepository ==
    /\ llm.pc \in {"idle", "returned"}
    /\ \E topic \in Topics : llm' = StartCall("query", topic)
    /\ UNCHANGED <<settings, retryVars, collectVars, storeVars, sanitizeVars, appVars>>

\* the request of callGroqAPI has ended: the caller returns what it returns
GroqSettles ==
    /\ llm.pc = "groq"
    /\ \E o \in GroqOutcomes :
          llm' = [llm EXCEPT !.pc = "returned",
                             !.fault = IF o.kind = "ok" THEN "none" ELSE o.kind,
                             !.err = [GroqError(o) EXCEPT !.status = o.status],
                             !.result = callGroqAPI(o)]
    /\ UNCHANGED <<settings, retryVars, collectVars, storeVars, sanitizeVars, appVars>>

\* the catch block of optimizeSearchQuery
OptimizeCatch(frame, error) ==
    [frame EXCEPT !.pc = "returned", !.fault = "reject", !.err = error,
                  !.result = frame.topic]

\* the catch block of queryRepository
QueryCatch(frame, error) ==
    [frame EXCEPT !.pc = "returned", !.fault = "reject", !.err = error,
                  !.result = IF Includes(error.message, "429")
                                THEN SystemOverloaded ELSE ErrorAnalyzing]

\* the call of the Gemini client has settled: response.text?.trim() || topic,
\* result.text || "No response generated.", or the catch block
GeminiSettles ==
    /\ llm.pc = "gemini"
    /\ \/ \E text \in ReplyTexts :
             llm' = [llm EXCEPT
                        !.pc = "returned",
                        !.result = IF llm.fn = "optimize"
                                      THEN (IF Trim(text) # <<>> THEN Trim(text)
                                            ELSE llm.topic)
                                      ELSE (IF text # <<>> THEN text
                                            ELSE <<"No", "response", "generated.">>)]
       \/ \E error \in ProviderErrors :
             llm' = IF llm.fn = "optimize" THEN OptimizeCatch(llm, error)
                    ELSE QueryCatch(llm, error)
    /\ UNCHANGED <<settings, retryVars, collectVars, storeVars, sanitizeVars, appVars>>

\* storageService.saveSettings(settings), from the settings page
SaveSettings ==
    /\ \E provider \in {"gemini", "groq"}, key \in BOOLEAN :
          settings' = [provider |-> provider, groqApiKey |-> key]
    /\ UNCHANGED <<llm, retryVars, collectVars, storeVars, sanitizeVars, appVars>>

----------------------------------------------------------------------------
(* One call of sanitizePapers, on the records of a bounded set *)

\* a well-formed record, the records that differ from it in one field (or in
\* the three fields of an enumeration, set to the same value), and null
SanitizeItems ==
    LET base == Raw(JsStr(<<"A", "l", "p", "h", "a">>), JsStr(Http \o <<":", "x">>),
                    JsStr(DatePast))
        titles ==
            { JsStr(<<"B", "e", "t", "a">>), JsStr(<<"G", "a", "m", "m", "a">>),
              JsUndefined, JsStr(<<>>), JsStr(UntitledResearch), JsNum(7) }
        authors ==
            { JsNull, JsNum(5), JsArray(<<>>),
              JsArray(<<JsStr(<<" ", "A", "n", " ">>), JsStr(<<>>),
                        JsStr(<<"B", "o">>)>>),
              JsArray(<<JsStr(<<" ">>)>>),
              JsArray(<<JsNull, JsNum(7)>>),
              JsStr(<<"A", "n", ",", " ", "B", "o">>), JsStr(<<"A", "n", ",">>),
              JsStr(<<" ", "A", "n", " ">>), JsStr(<<>>), JsStr(<<" ">>) }
        domains ==
            { JsStr(<<"Fraud Detection">>), JsStr(<<"fraud detection">>),
              JsStr(<<"RAG Systems">>), JsStr(<<"Case Study">>),
              JsStr(<<"General Banking AI">>), JsStr(<<"Predictive Analytics">>),
              JsStr(<<"Theoretical Framework">>), JsNum(1), JsNull }
        citations ==
            { JsNum(12), JsNum(0), JsNum(0 - 5), JsStr(<<"1", "2">>), JsNull }
        dates ==
            { JsStr(DateTomorrow), JsStr(DateTomorrow \o <<"T", "0", "1">>),
              JsStr(DateFuture), JsStr(<<"s", "o", "o", "n">>), JsNum(7),
              JsUndefined }
    IN {base, RawNull}
       \cup {[base EXCEPT !.title = v] : v \in titles}
       \cup {[base EXCEPT !.authors = v] : v \in authors}
       \cup {[base EXCEPT !.bankingDomain = v, !.aiDomain = v, !.methodology = v] :
                 v \in domains}
       \cup {[base EXCEPT !.citationCount = v] : v \in citations}
       \cup {[base EXCEPT !.publicationDate = v] : v \in dates}
       \cup {[base EXCEPT !.url = v] : v \in {JsNum(7), JsStr(<<"x">>)}}

\* sanitizePapers(papers), called once: on a day of 24 hours, or on the day
\* before the local clock is put forward or back an hour
SanitizePapers ==
    /\ sanitized = <<>>
    /\ \E papers \in SeqsUpTo(SanitizeItems, MaxItems), now \in {23, 24, 25} :
          /\ rawPapers' = papers
          /\ sanitized' = <<sanitizePapers(papers, now)>>
    /\ UNCHANGED <<retryVars, collectVars, storeVars, llmVars, appVars>>

----------------------------------------------------------------------------
(* Specifications *)

NoOutcome == [kind |-> "none", papers |-> <<>>, err |-> NoError]

\* the state of a page that was just loaded, but for the last-run item
InitSession ==
    /\ rpc = "idle"
    /\ caller = "test"
    /\ retries = 0
    /\ initialDelay = 0
    /\ r0 = 0
    /\ d0 = 0
    /\ rlog = <<>>
    /\ failures = <<>>
    /\ opValue = <<>>
    /\ rValue = <<>>
    /\ rErr = NoError
    /\ ai \in BOOLEAN
    /\ cpc = "idle"
    /\ kbVia = "none"
    /\ caught = NoError
    /\ searchFailures = <<>>
    /\ searchErr = NoError
    /\ searchText = <<>>
    /\ searchCalls = 0
    /\ kbCalls = 0
    /\ kbEntered = 0
    /\ kbErr = NoError
    /\ outcome = NoOutcome
    /\ papersItem = <<>>
    /\ lastOp = NoOp
    /\ rawPapers = <<>>
    /\ sanitized = <<>>
    /\ settings = DEFAULT_SETTINGS
    /\ llm = NoCall
    /\ task = [t \in Tasks |-> NoTask]
    /\ clock = StartClock
    /\ status = "idle"

\* the first load: the store holds no last-run item
Init == InitSession /\ lastBatchItem = 0

\* the initial state with a configured client
InitClient == Init /\ ai = TRUE

\* one invocation of the collection pipeline
Next ==
    \/ CollectPapersFromWeb
    \/ OperationResolves
    \/ OperationRejects
    \/ DelayElapses
    \/ SearchSettles
    \/ KBSettles

Spec == Init /\ [][Next]_vars

\* stand-alone calls of retryOperation
NextRetry ==
    \/ RetryOperation
    \/ OperationResolves
    \/ OperationRejects
    \/ DelayElapses

SpecRetry == InitClient /\ [][NextRetry]_vars

\* calls of the store, from the empty store
NextStore ==
    \/ SavePaper
    \/ ToggleFavorite
    \/ AddTag

SpecStore == InitClient /\ [][NextStore]_vars

\* one call of sanitizePapers
SpecSanitize == InitClient /\ [][SanitizePapers]_vars

\* calls of optimizeSearchQuery and of queryRepository, one at a time, and
\* changes of the settings
NextLLM ==
    \/ OptimizeSearchQuery
    \/ QueryRepository
    \/ GroqSettles
    \/ GeminiSettles
    \/ SaveSettings

SpecLLM == Init /\ [][NextLLM]_vars

\* the application, loaded with or without a client, the store holding no
\* papers and any last-run item
InitApp == InitSession /\ lastBatchItem \in LastRuns

NextApp ==
    \/ RunDailyBatchJob("initApp")
    \/ BatchDelayElapses("initApp")
    \/ BatchCollectSettles("initApp")
    \/ HandleRunCollection("dashboard")
    \/ ManualOptimizeSettles("dashboard")
    \/ ManualCollectSettles("dashboard")
    \/ Tick

SpecApp == InitApp /\ [][NextApp]_vars

\* the daily batch jobs of initApp and of handleLogin
SpecOverlap ==
    InitApp /\ [][ \/ RunDailyBatchJob("initApp")
                   \/ BatchDelayElapses("initApp")
                   \/ BatchCollectSettles("initApp")
                   \/ RunDailyBatchJob("handleLogin")
                   \/ BatchDelayElapses("handleLogin")
                   \/ BatchCollectSettles("handleLogin")
                   \/ Tick ]_vars

\* the manual runs of the collection manager, mounted and unmounted
SpecRemount ==
    Init /\ [][ \/ HandleRunCollection("dashboard")
                \/ ManualOptimizeSettles("dashboard")
                \/ ManualCollectSettles("dashboard")
                \/ ManualOptimizeSettles("detached")
                \/ ManualCollectSettles("detached")
                \/ Navigate ]_vars

----------------------------------------------------------------------------
(* Helpers of the properties *)

RECURSIVE Pow2(_)
Pow2(n) == IF n = 0 THEN 1 ELSE 2 * Pow2(n - 1)

Last(s) == s[Len(s)]

Calls == Cardinality({i \in 1..Len(rlog) : rlog[i].ev = "call"})
Delays == Cardinality({i \in 1..Len(rlog) : rlog[i].ev = "delay"})

----------------------------------------------------------------------------
(* Properties of the collection pipeline *)

\* the quota-exceeded signature of an error
HasQuotaSignature(error) == Includes(error.message, "429") \/ error.code = 429

\* the retried search call has settled
SearchSettled == cpc \in {"kb", "returned", "thrown"} /\ searchCalls > 0
SearchFailed == SearchSettled /\ searchErr # NoError
SearchSucceeded == SearchSettled /\ searchErr = NoError

\* a JSON array can be obtained from the text
HoldsJsonArray(text) ==
    JSONparse(JsonStr(text)).ok /\ JSONparse(JsonStr(text)).isArray

Finished == cpc \in {"returned", "thrown"}

(* C1: when the retried search call fails with a quota signature, the      *)
(* invocation fails with the Quota-Exceeded error and no knowledge-base    *)
(* call is issued.                                                         *)
C1_QuotaAbortsWithoutFallback ==
    (SearchFailed /\ HasQuotaSignature(searchErr)) =>
        /\ cpc = "thrown"
        /\ outcome = [kind |-> "thrown", papers |-> <<>>,
                      err |-> QuotaExceededError]
        /\ kbEntered = 0
        /\ kbCalls = 0

\* three search calls, the last failing with code 429 and no "429" in its
\* message
C1_Witness ==
    /\ cpc = "thrown"
    /\ searchCalls = 3
    /\ searchErr.code = 429
    /\ ~Includes(searchErr.message, "429")
    /\ outcome.err = QuotaExceededError
    /\ kbCalls = 0

(* C2: whenever the search call or the knowledge-base call of an           *)
(* invocation finally fails with a quota signature, the invocation fails   *)
(* with a quota error.                                                     *)
C2_QuotaAlwaysPropagates ==
    (Finished /\ (HasQuotaSignature(searchErr) \/ HasQuotaSignature(kbErr))) =>
        /\ outcome.kind = "thrown"
        /\ HasQuotaSignature(outcome.err)

(* C3: when every attempt of the search call fails with a 429 or 503       *)
(* signature (in the message, the status or the code), so that the budget  *)
(* is used up, the invocation fails with the Quota-Exceeded error.         *)
C3_ExhaustedTransientIsQuota ==
    ( /\ SearchFailed
      /\ Len(searchFailures) = SearchRetries + 1
      /\ \A i \in 1..Len(searchFailures) :
            \/ searchFailures[i].status \in {429, 503}
            \/ searchFailures[i].code = 429
            \/ Includes(searchFailures[i].message, "429")
            \/ Includes(searchFailures[i].message, "503") )
    => /\ cpc = "thrown"
       /\ outcome.err = QuotaExceededError

(* C4, as claimed: whenever the search call succeeds with a text that is   *)
(* not empty and from which no JSON array can be obtained, the fallback is *)
(* attempted.                                                              *)
C4_NoArrayMeansFallback ==
    (SearchSucceeded /\ searchText # <<>> /\ ~HoldsJsonArray(searchText)) =>
        kbEntered >= 1

(* C4, amended: whenever the search call succeeds with a text that is not  *)
(* empty and whose JSON does not parse, the fallback is attempted and its  *)
(* call issued; when the text parses to a JSON value that is no array, the *)
(* invocation returns no records and the fallback is not attempted.        *)
C4_ParseFailureMeansFallback ==
    (SearchSucceeded /\ searchText # <<>>) =>
        /\ ~JSONparse(JsonStr(searchText)).ok =>
              /\ kbEntered >= 1
              /\ kbCalls >= 1
              /\ kbVia = "parse"
        /\ ( /\ JSONparse(JsonStr(searchText)).ok
             /\ ~JSONparse(JsonStr(searchText)).isArray ) =>
              /\ kbEntered = 0
              /\ outcome = [kind |-> "returned", papers |-> <<>>, err |-> NoError]

\* the text of the search has a fence that holds words, and the fallback
\* call is in flight
C4_Witness ==
    /\ cpc = "kb"
    /\ rpc = "calling"
    /\ kbVia = "parse"
    /\ searchText = <<Fence, JsonWord, Prose, Fence>>
    /\ kbCalls = 1

(* C5: the fallback is entered only after the search call failed with an   *)
(* error that has no quota signature, or no JSON array could be obtained   *)
(* from its text; a text that holds the empty JSON array makes the         *)
(* invocation return no records without the fallback.                      *)
C5_FallbackOnlyAfterFailure ==
    /\ kbEntered >= 1 =>
          \/ SearchFailed /\ ~HasQuotaSignature(searchErr)
          \/ SearchSucceeded /\ ~HoldsJsonArray(searchText)
    /\ ( /\ SearchSucceeded
         /\ HoldsJsonArray(searchText)
         /\ JSONparse(JsonStr(searchText)).items = <<>> ) =>
          /\ kbEntered = 0
          /\ outcome = [kind |-> "returned", papers |-> <<>>, err |-> NoError]

----------------------------------------------------------------------------
(* Properties of retryOperation *)

(* C6: when operation() fails k <= r times with a transient signature and  *)
(* then succeeds, retryOperation resolves with the operation's value after *)
(* exactly k+1 calls and k delays; the i-th delay lasts d*2^(i-1) and      *)
(* lies between call i and call i+1.                                       *)
C6_BackoffSchedule ==
    rpc = "returned" =>
        LET k == Len(failures) IN
        /\ k <= r0
        /\ rValue = opValue
        /\ Len(rlog) = 2 * k + 1
        /\ Calls = k + 1
        /\ Delays = k
        /\ \A i \in 1..k :
              /\ rlog[2 * i - 1] = CallEv
              /\ rlog[2 * i] = DelayEv(d0 * Pow2(i - 1))
        /\ rlog[2 * k + 1] = CallEv

\* two failures with the 429 signature, then success, with a budget of 2:
\* delays d and 2d
C6_Witness ==
    /\ rpc = "returned"
    /\ r0 = 2
    /\ d0 = 1000
    /\ Len(failures) = 2
    /\ \A i \in 1..2 : Includes(failures[i].message, "429")
    /\ rlog = <<CallEv, DelayEv(1000), CallEv, DelayEv(2000), CallEv>>

(* C7: retryOperation throws exactly when the last error of operation() is *)
(* not transient or no budget is left, it throws that very error, with no  *)
(* delay and no call after it; operation() is called at most budget+1      *)
(* times.                                                                  *)
C7_RethrowUnchanged ==
    /\ Calls <= r0 + 1
    /\ rpc = "thrown" =>
          /\ rErr = Last(failures)
          /\ ~IsTransient(rErr) \/ Len(failures) = r0 + 1
          /\ Calls = Len(failures)
          /\ Delays = Len(failures) - 1
          /\ Last(rlog) = CallEv
    /\ rpc = "waiting" =>
          /\ IsTransient(Last(failures))
          /\ Len(failures) <= r0
          /\ rErr = NoError
    /\ rpc \in {"calling", "waiting", "returned"} =>
          \A i \in 1..Len(failures) : IsTransient(failures[i]) /\ i <= r0

\* the budget ran out on a transient error, which is thrown as it is
C7_Witness ==
    /\ rpc = "thrown"
    /\ r0 = 2
    /\ Len(failures) = 3
    /\ IsTransient(rErr)
    /\ rErr = failures[3]

(* C8: an error that carries 429 or 503, as its status code or in its      *)
(* message, is retried while budget is left: retryOperation does not throw *)
(* it with budget left.                                                    *)
CarriesTransientSignature(error) ==
    \/ error.status \in {429, 503}
    \/ error.code = 429
    \/ Includes(error.message, "429")
    \/ Includes(error.message, "503")

C8_Status503Retried ==
    (rpc = "thrown" /\ Len(failures) <= r0) =>
        ~CarriesTransientSignature(Last(failures))

----------------------------------------------------------------------------
(* Properties of the store *)

\* two titles are equal but for the case of their letters
CaseInsensitiveEqual(a, b) ==
    /\ Len(a) = Len(b)
    /\ \A k \in 1..Len(a) :
          a[k] = b[k] \/ LowerChar(a[k]) = b[k] \/ a[k] = LowerChar(b[k])

\* the records of the list whose title equals t but for case
TitleCount(list, t) ==
    Cardinality({i \in 1..Len(list) : CaseInsensitiveEqual(list[i].title.s, t)})

(* C9: from the empty store, after any calls of savePaper, toggleFavorite  *)
(* and addTag, no two stored records have titles equal but for case, and   *)
(* no two have the same url unless it is empty.                            *)
C9_UniqueTitlesAndUrls ==
    \A i, j \in 1..Len(papersItem) :
        i # j =>
            /\ ~CaseInsensitiveEqual(papersItem[i].title.s, papersItem[j].title.s)
            /\ ~(papersItem[i].url.s # <<>> /\ papersItem[i].url = papersItem[j].url)

\* two records are stored, one of them marked and tagged since, and a
\* record with the url of a stored record of another title was just refused
C9_Witness ==
    /\ Len(papersItem) = 2
    /\ \E i \in 1..2 : papersItem[i].isFavorite /\ papersItem[i].tags # <<>>
    /\ lastOp.op = "savePaper"
    /\ lastOp.result = "false"
    /\ \E i \in 1..2 :
          /\ papersItem[i].url = lastOp.paper.url
          /\ ~CaseInsensitiveEqual(papersItem[i].title.s, lastOp.paper.title.s)

(* C10: once a record is saved, exactly one stored record has its title   *)
(* but for case; savePaper of any record with that title but for case      *)
(* returns false, leaves the stored list as it was, and so leaves exactly  *)
(* one such record.                                                        *)
C10_SaveIdempotent ==
    [][ lastOp'.op = "savePaper" =>
          /\ lastOp'.result = "true" =>
                TitleCount(papersItem', lastOp'.paper.title.s) = 1
          /\ TitleCount(papersItem, lastOp'.paper.title.s) >= 1 =>
                /\ lastOp'.result = "false"
                /\ papersItem' = papersItem
                /\ TitleCount(papersItem', lastOp'.paper.title.s) = 1 ]_vars

\* "Alpha" is stored and "ALPHA", with no url, was just refused
C10_Witness ==
    /\ lastOp.op = "savePaper"
    /\ lastOp.result = "false"
    /\ lastOp.paper.title.s = Chars_ALPHA
    /\ lastOp.paper.url.s = <<>>
    /\ \E i \in 1..Len(papersItem) : papersItem[i].title.s = Chars_Alpha
    /\ TitleCount(papersItem, Chars_ALPHA) = 1

----------------------------------------------------------------------------
(* Properties of the application *)

\* no two records of the list have titles equal but for case, and no two
\* have the same address unless it is empty
NoDuplicates(list) ==
    \A i, j \in 1..Len(list) :
        i # j =>
            /\ ~( /\ list[i].title.ty = "string"
                  /\ list[j].title.ty = "string"
                  /\ CaseInsensitiveEqual(list[i].title.s, list[j].title.s) )
            /\ ~(Truthy(list[i].url) /\ list[i].url = list[j].url)

\* the invocations of t and u have finished and were in flight together
RacedAndDone(t, u) ==
    /\ t # u
    /\ task[t].pc = "done" /\ task[u].pc = "done"
    /\ task[t].overlap /\ task[u].overlap

(* C11, as claimed: two runs that are in flight together both observe the  *)
(* stored set as it was before either saved, so that when both save a      *)
(* record of the same title but for case and one of them stores it, the    *)
(* other stores it too, and the store holds duplicates.                    *)
C11_RacingRunsBothInsert ==
    \A t, u \in Tasks :
        RacedAndDone(t, u) =>
            \A title \in task[t].got \cap task[u].got :
                title \in task[t].ins => title \in task[u].ins

(* C11, amended: when a manual run and the daily batch interleave at their *)
(* awaits, the saves of a run are not interleaved with those of the other: *)
(* the store never holds two records with the same title but for case or   *)
(* the same address, and no title is stored by both runs.                  *)
C11_NoDuplicatesWhenInterleaved ==
    /\ NoDuplicates(papersItem)
    /\ \A t, u \in Tasks : t # u => task[t].ins \cap task[u].ins = {}

\* the batch and a manual run were in flight together, both saved a record
\* titled Alpha but for case; the manual run stored it and the batch, which
\* saved later, was refused
C11_Witness ==
    /\ RacedAndDone("initApp", "dashboard")
    /\ toLowerCase(Chars_Alpha) \in task["dashboard"].ins
    /\ toLowerCase(Chars_Alpha) \in task["initApp"].got \ task["initApp"].ins
    /\ task["initApp"].ret = 0
    /\ TitleCount(papersItem, Chars_Alpha) = 1

\* t is called in this step
Invoked(t) == task[t].pc = "idle" /\ task'[t].pc # "idle"

(* C12: when runDailyBatchJob is called and the last-run item is not 0 and *)
(* less than 24 hours before the clock, it returns 0 at once: it calls     *)
(* neither delay nor collectPapersFromWeb, and the papers and the last-run *)
(* item of the store stay as they are.                                     *)
C12_ClosedGateReturnsZero ==
    [][ ( /\ Invoked("initApp")
          /\ lastBatchItem # 0
          /\ clock - lastBatchItem < ONE_DAY_MS ) =>
            /\ task'["initApp"].pc = "done"
            /\ task'["initApp"].ret = 0
            /\ ~task'["initApp"].raised
            /\ task'["initApp"].delays = 0
            /\ task'["initApp"].collects = 0
            /\ papersItem' = papersItem
            /\ lastBatchItem' = lastBatchItem ]_vars

\* the batch job was called 23 hours after the last run and has returned
C12_Witness ==
    /\ task["initApp"].pc = "done"
    /\ task["initApp"].gate = "closed"
    /\ task["initApp"].now - task["initApp"].last = ONE_DAY_MS - 1
    /\ lastBatchItem = task["initApp"].last

C14_BatchNeverRaises ==
    [][ ( /\ task["initApp"].pc # "done"
          /\ task'["initApp"].pc = "done" ) =>
            /\ ~task'["initApp"].raised
            /\ task'["initApp"].ret \in 0..MaxFound
            /\ task'["initApp"].ret = Len(papersItem') - Len(papersItem) ]_vars

\* savePaper threw in the batch job (the record has a number for a title and
\* the store holds a record), and the job has returned 0
C14_Witness ==
    /\ task["initApp"].pc = "done"
    /\ task["initApp"].end = "savePaper"
    /\ ~task["initApp"].raised
    /\ task["initApp"].ret = 0
    /\ Len(papersItem) = 1

----------------------------------------------------------------------------
(* Properties of optimizeSearchQuery and queryRepository *)

\* the call of fn has ended and its provider call failed or had no
\* credentials to be made with
FailedCall(fn) ==
    /\ llm.fn = fn
    /\ llm.pc \in {"returned", "thrown"}
    /\ llm.fault # "none"

(* C15: optimizeSearchQuery never rejects and calls its provider at most   *)
(* once; with either provider, when the provider call fails or the         *)
(* credentials are missing, it returns the topic it was given.             *)
C15_OptimizeEchoesTopic ==
    llm.fn = "optimize" =>
        /\ llm.pc # "thrown"
        /\ llm.calls <= 1
        /\ FailedCall("optimize") => llm.result = llm.topic

\* the quota signature of a failure of a provider: 429 in the message, as
\* the code of the error, or as the status of the response
QuotaFailure(error) == HasQuotaSignature(error) \/ error.status = 429

(* C16: queryRepository never rejects; with either provider, when the      *)
(* provider call fails with a quota signature it returns the fixed         *)
(* message that the system is overloaded, and when it fails otherwise the  *)
(* fixed message of a failure.                                             *)
C16_QueryFailuresAreFixedReplies ==
    llm.fn = "query" =>
        /\ llm.pc # "thrown"
        /\ (FailedCall("query") /\ llm.fault # "credentials") =>
              llm.result = IF QuotaFailure(llm.err) THEN SystemOverloaded
                           ELSE ErrorAnalyzing

----------------------------------------------------------------------------
(* Properties of sanitizePapers *)

\* the call has returned (it has not thrown)
Sanitized == sanitized # <<>> /\ ~sanitized[1].threw
Clean == sanitized[1].papers

\* the raw record the i-th record of the result was made of
RawOf(i) == rawPapers[Clean[i].id]

\* the record made of the k-th raw record is in the result
Kept(k) == \E i \in 1..Len(Clean) : Clean[i].id = k

(* C17: in every record of the result, bankingDomain, aiDomain and         *)
(* methodology are the raw value when it is a member of the enumeration    *)
(* and else "General Banking AI", "Predictive Analytics" and "Theoretical  *)
(* Framework"; each is a member of its enumeration.                        *)
C17_EnumsOrDefaults ==
    Sanitized =>
        \A i \in 1..Len(Clean) :
            /\ Clean[i].bankingDomain \in BankingDomain
            /\ Clean[i].aiDomain \in AIDomain
            /\ Clean[i].methodology \in Methodology
            /\ Clean[i].bankingDomain =
                  IF RawOf(i).bankingDomain \in BankingDomain
                      THEN RawOf(i).bankingDomain
                      ELSE JsStr(<<"General Banking AI">>)
            /\ Clean[i].aiDomain =
                  IF RawOf(i).aiDomain \in AIDomain
                      THEN RawOf(i).aiDomain
                      ELSE JsStr(<<"Predictive Analytics">>)
            /\ Clean[i].methodology =
                  IF RawOf(i).methodology \in Methodology
                      THEN RawOf(i).methodology
                      ELSE JsStr(<<"Theoretical Framework">>)

\* a record with a member of the methodologies for its AI domain, and one
\* with a banking domain in lower case, are in the result with a default
\* and the other fields at their defaults
C17_Witness ==
    /\ Sanitized
    /\ Len(Clean) = 2
    /\ RawOf(1).aiDomain = JsStr(<<"Case Study">>)
    /\ Clean[1].aiDomain = JsStr(<<"Predictive Analytics">>)
    /\ RawOf(2).bankingDomain = JsStr(<<"fraud detection">>)
    /\ Clean[2].bankingDomain = JsStr(<<"General Banking AI">>)
    /\ Clean[2].methodology = JsStr(<<"Theoretical Framework">>)

(* C18: a raw record whose title is missing, shorter than 5 characters or  *)
(* the placeholder "Untitled Research" is not in the result, and every     *)
(* record of the result has a title of 5 characters or more that is not    *)
(* the placeholder.                                                        *)
C18_TitlesAreWellFormed ==
    Sanitized =>
        /\ \A k \in 1..Len(rawPapers) :
              ( \/ rawPapers[k].title.ty \in {"undefined", "null"}
                \/ ( /\ rawPapers[k].title.ty = "string"
                     /\ \/ Len(rawPapers[k].title.s) < 5
                        \/ rawPapers[k].title.s = UntitledResearch ) )
              => ~Kept(k)
        /\ \A i \in 1..Len(Clean) :
              /\ Clean[i].title.ty = "string"
              /\ Len(Clean[i].title.s) >= 5
              /\ Clean[i].title.s # UntitledResearch

\* the reference normalization of an authors field.  The k-th smallest
\* element of a set of numbers
Kth(S, k) == CHOOSE x \in S : Cardinality({y \in S : y < x}) = k - 1

\* s without the blanks before its first and after its last character that
\* is no blank
Trimmed(s) ==
    LET solid == {i \in 1..Len(s) : s[i] # " "}
    IN IF solid = {} THEN <<>>
       ELSE SubSeq(s, Kth(solid, 1), Kth(solid, Cardinality(solid)))

\* the k-th piece of s between its commas
Piece(s, k) ==
    LET commas == {i \in 1..Len(s) : s[i] = ","}
    IN SubSeq(s, Kth(commas \cup {0}, k) + 1, Kth(commas \cup {Len(s) + 1}, k) - 1)

ReferenceAuthors(v) ==
    LET named == {i \in 1..Len(v.items) : Trimmed(StringOf(v.items[i])) # <<>>}
        commas == Cardinality({i \in 1..Len(v.s) : v.s[i] = ","})
        list == CASE v.ty = "array" ->
                        [k \in 1..Cardinality(named) |->
                            Trimmed(StringOf(v.items[Kth(named, k)]))]
                  [] v.ty = "string" /\ commas > 0 ->
                        [k \in 1..(commas + 1) |-> Trimmed(Piece(v.s, k))]
                  [] v.ty = "string" /\ commas = 0 -> <<Trimmed(v.s)>>
                  [] OTHER -> <<>>
    IN IF list = <<>> THEN <<<<"Unknown Author">>>> ELSE list

(* C19: in every record of the result, authors is the reference            *)
(* normalization of the raw field: for a list, its entries trimmed, the    *)
(* empty ones dropped; for a string with a comma, its pieces between the   *)
(* commas, trimmed; for another string, the list of that string, trimmed;  *)
(* for a missing field or an empty list, the list of "Unknown Author".     *)
(* The list is never empty.                                                *)
C19_AuthorsAreNormalized ==
    Sanitized =>
        \A i \in 1..Len(Clean) :
            /\ Clean[i].authors # <<>>
            /\ RawOf(i).authors.ty \in {"array", "string", "undefined", "null"} =>
                  Clean[i].authors = ReferenceAuthors(RawOf(i).authors)

\* a list with a blank-padded name, an empty entry and a name, and the
\* string of two names with a comma and a blank, both give the two names
C19_Witness ==
    /\ Sanitized
    /\ Len(Clean) = 2
    /\ RawOf(1).authors.ty = "array"
    /\ Len(RawOf(1).authors.items) = 3
    /\ RawOf(2).authors = JsStr(<<"A", "n", ",", " ", "B", "o">>)
    /\ Clean[1].authors = << <<"A", "n">>, <<"B", "o">> >>
    /\ Clean[2].authors = << <<"A", "n">>, <<"B", "o">> >>

(* C20: in every record of the result, citationCount is an integer that is *)
(* not negative.                                                           *)
C20_CitationCountIsNatural ==
    Sanitized => \A i \in 1..Len(Clean) : Clean[i].citationCount \in Nat

\* the instant the publication date of the k-th raw record parses to; a
\* record without a date gets the date of the call
RawPubTime(k) ==
    IF Truthy(rawPapers[k].publicationDate)
        THEN DateGetTime(rawPapers[k].publicationDate)
        ELSE TodayGetTime

(* C21: a raw record whose publication date parses to an instant more than *)
(* 24 hours after the call is not in the result; a record whose title is   *)
(* kept and whose date does not parse, or parses to an instant at most 24  *)
(* hours after the call, is in the result.                                 *)
C21_DateRuleIs24Hours ==
    Sanitized =>
        \A k \in 1..Len(rawPapers) :
            /\ (~RawPubTime(k).nan /\ RawPubTime(k).h > 24) => ~Kept(k)
            /\ ( /\ rawPapers[k].title.ty = "string"
                 /\ Len(rawPapers[k].title.s) >= 5
                 /\ rawPapers[k].title.s # UntitledResearch
                 /\ (RawPubTime(k).nan \/ RawPubTime(k).h <= 24) ) => Kept(k)

----------------------------------------------------------------------------
(* The pipeline from the text of the search to the records returned *)

\* the title and the date of the raw record p pass the rules of the sanitizer
PassesRules(p) ==
    /\ p.title.ty = "string"
    /\ Len(p.title.s) >= 5
    /\ p.title.s # UntitledResearch
    /\ LET at == IF Truthy(p.publicationDate) THEN DateGetTime(p.publicationDate)
                 ELSE TodayGetTime
       IN at.nan \/ at.h <= 24

(* C22: when the search call has succeeded with a JSON array of records in *)
(* a json fence, the invocation issues no knowledge-base call and returns  *)
(* the records of the array that pass the title and date rules, in the     *)
(* order of the array, each with a member of every enumeration: the raw    *)
(* value when it is a member, and else the default.                        *)
C22_FencedArrayIsSanitizedAndReturned ==
    LET raw == JSONparse(JsonStr(searchText)).items
        kept == {k \in 1..Len(raw) : PassesRules(raw[k])}
    IN ( /\ Finished
         /\ SearchSucceeded
         /\ Len(searchText) = 4
         /\ searchText[1] = Fence /\ searchText[2] = JsonWord
         /\ searchText[3].t = "array" /\ searchText[4] = Fence
         /\ \A k \in 1..Len(raw) : raw[k].isObject ) =>
            /\ kbCalls = 0 /\ kbEntered = 0
            /\ outcome.kind = "returned"
            /\ Len(outcome.papers) = Cardinality(kept)
            /\ \A i \in 1..Len(outcome.papers) :
                  LET paper == outcome.papers[i]
                      p == raw[Kth(kept, i)]
                  IN /\ paper.id = Kth(kept, i)
                     /\ paper.title = p.title
                     /\ paper.bankingDomain =
                           IF p.bankingDomain \in BankingDomain THEN p.bankingDomain
                           ELSE JsStr(<<"General Banking AI">>)
                     /\ paper.aiDomain =
                           IF p.aiDomain \in AIDomain THEN p.aiDomain
                           ELSE JsStr(<<"Predictive Analytics">>)
                     /\ paper.methodology =
                           IF p.methodology \in Methodology THEN p.methodology
                           ELSE JsStr(<<"Theoretical Framework">>)

----------------------------------------------------------------------------
(* Properties of the manual run and of the daily batch job *)

(* C23: a manual run that has ended is in the 'error' status only when     *)
(* collectPapersFromWeb raised the quota error or another error; when      *)
(* collectPapersFromWeb returned no records the status is not 'error'.     *)
C23_ErrorStatusOnlyForRaisedErrors ==
    task["dashboard"].pc = "done" =>
        /\ status = "error" => task["dashboard"].end \in {"quota", "error"}
        /\ task["dashboard"].end = "empty" => status # "error"

\* the invocation of runDailyBatchJob by t returns in this step
Returns(t) == task[t].pc # "done" /\ task'[t].pc = "done"

(* C24: runDailyBatchJob returns the number of records savePaper stored    *)
(* during the invocation: the records refused as duplicates are not        *)
(* counted, and the stored list is longer by the number returned.          *)
C24_CountIsRecordsStored ==
    [][ Returns("initApp") =>
            /\ task'["initApp"].ins \subseteq task'["initApp"].got
            /\ task'["initApp"].ret = Cardinality(task'["initApp"].ins)
            /\ Len(papersItem') = Len(papersItem) + task'["initApp"].ret
            /\ \A k \in 1..Len(papersItem) :
                  papersItem'[k + task'["initApp"].ret] = papersItem[k] ]_vars

\* the batch job got a record whose title the store held already: it was
\* refused, and the job returned 0
C24_Witness ==
    /\ task["initApp"].pc = "done"
    /\ task["initApp"].end = "papers"
    /\ task["initApp"].got = {toLowerCase(Chars_Alpha)}
    /\ task["initApp"].ins = {}
    /\ task["initApp"].ret = 0
    /\ Len(papersItem) = 1

\* the changes of status a manual run can make
StatusChanges ==
    {<<"idle", "optimizing">>, <<"completed", "optimizing">>,
     <<"error", "optimizing">>, <<"optimizing", "searching">>,
     <<"searching", "saving">>, <<"saving", "completed">>,
     <<"optimizing", "error">>, <<"searching", "error">>, <<"saving", "error">>}

(* C25: every call of setStatus by a manual run changes the status along   *)
(* idle, completed or error -> optimizing -> searching -> saving ->        *)
(* completed, or from optimizing, searching or saving to error; no other   *)
(* step changes the status, and 'analyzing' is never set.                  *)
C25_StatusFollowsTheSteps ==
    [][ IF task'["dashboard"].pc # task["dashboard"].pc
            THEN LET path == <<status>> \o task'["dashboard"].sets
                 IN /\ \A i \in 1..(Len(path) - 1) :
                          <<path[i], path[i + 1]>> \in StatusChanges
                    /\ status' = path[Len(path)]
            ELSE status' = status ]_vars

\* a second run, started from the status 'completed', has found records and
\* saved them
C25_Witness ==
    /\ task["dashboard"].pc = "done"
    /\ task["dashboard"].sets = <<"saving", "completed">>
    /\ task["dashboard"].end = "papers"
    /\ task["dashboard"].ret = 0
    /\ status = "completed"

(* C28: of two invocations of runDailyBatchJob that have called            *)
(* collectPapersFromWeb, the later was started 24 hours or more after the  *)
(* earlier.                                                                *)
C28_GateHoldsAcrossInvocations ==
    \A t, u \in {"initApp", "handleLogin"} :
        ( /\ t # u
          /\ task[t].collects >= 1
          /\ task[u].collects >= 1
          /\ task[u].now >= task[t].now ) =>
            task[u].now - task[t].now >= ONE_DAY_MS

(* C29: the last-run item never decreases.                                 *)
C29_TimestampNeverDecreases ==
    [][lastBatchItem' >= lastBatchItem]_vars

(* C30: at most one manual run is in flight at any time.                   *)
C30_OneManualRunInFlight ==
    ~(InFlight("dashboard") /\ InFlight("detached"))

----------------------------------------------------------------------------
(* Frame of toggleFavorite and addTag; the calls and the end of the pipeline *)

(* C26: toggleFavorite(id) and addTag(id, tag) leave the stored records in *)
(* their number and order; toggleFavorite changes nothing but isFavorite,  *)
(* and addTag nothing but tags, of the records whose id is id; and no call *)
(* of savePaper, toggleFavorite or addTag makes the stored list shorter.   *)
C26_ToggleAndTagFrame ==
    [][ /\ Len(papersItem') >= Len(papersItem)
        /\ lastOp'.op \in {"toggleFavorite", "addTag"} =>
              /\ Len(papersItem') = Len(papersItem)
              /\ \A i \in 1..Len(papersItem) :
                    /\ papersItem[i].id # lastOp'.id =>
                          papersItem'[i] = papersItem[i]
                    /\ lastOp'.op = "toggleFavorite" =>
                          [papersItem'[i] EXCEPT !.isFavorite = papersItem[i].isFavorite]
                              = papersItem[i]
                    /\ lastOp'.op = "addTag" =>
                          [papersItem'[i] EXCEPT !.tags = papersItem[i].tags]
                              = papersItem[i] ]_vars

\* of two stored records with different identifiers, one was made a
\* favorite and given a tag, and the other is as it was saved
C26_Witness ==
    /\ Len(papersItem) = 2
    /\ papersItem[1].id # papersItem[2].id
    /\ papersItem[2].isFavorite /\ papersItem[2].tags = <<"llm">>
    /\ ~papersItem[1].isFavorite /\ papersItem[1].tags = <<>>
    /\ lastOp.op = "toggleFavorite"

\* the invocation is made, no remote call stays pending, no delay stays
\* running, and no continuation of the program stays unrun
Settling ==
    /\ []<>(cpc # "idle")
    /\ []<>(rpc # "calling")
    /\ []<>(rpc # "waiting")
    /\ []<>~(cpc \in {"search", "kb"} /\ rpc \in {"returned", "thrown"})

(* C27: an invocation of collectPapersFromWeb issues at most 3 search      *)
(* calls and at most 2 knowledge-base calls and enters the fallback at     *)
(* most once; when every remote call and every delay settles, it ends: it  *)
(* returns a list of records or throws an error.                           *)
C27_BoundedCallsAndTermination ==
    /\ [](searchCalls <= 3 /\ kbCalls <= 2 /\ kbEntered <= 1)
    /\ Settling => <>(Finished /\ outcome.kind \in {"returned", "thrown"})

\* the search call failed three times and the knowledge-base call twice,
\* and the invocation has thrown
C27_Witness ==
    /\ Finished
    /\ searchCalls = 3
    /\ kbCalls = 2
    /\ kbEntered = 1
    /\ outcome.kind = "thrown"

====
